---------------------------- MODULE Spec2Model ----------------------------
(***************************************************************************)
(* Model of SupervisorAgent (MIT1/backend/agents/supervisor_agent.py):     *)
(* the retry/timeout executor, the stage orchestration sequence and the    *)
(* status / metrics / error-history bookkeeping.                           *)
(*                                                                         *)
(* Every coroutine of supervise_research_pipeline is one run.  asyncio     *)
(* switches coroutines only at an await that really suspends: the          *)
(* asyncio.wait_for around a collaborator call and the asyncio.sleep of    *)
(* the backoff.  The code between two such awaits is one atomic action.    *)
(***************************************************************************)
EXTENDS Integers, Sequences, FiniteSets, TLC

\* ---------------------------------------------------------------- bounds
MaxRuns == 2
MaxTime == 1
MaxFaults == 4
MaxSharedFaults == 1
MaxRetries == 3
FewRetries == 1
MaxPapers == 2

\* ------------------------------------------------------ program constants
RetryDelay == 1
RefLimit == 15

Runs == 1..MaxRuns

VARIABLES
    agent_status,      \* self.agent_status: pipeline id -> stage -> status
    pipeline_metrics,  \* self.pipeline_metrics: pipeline id -> metrics record
    error_history,     \* self.error_history
    retry_config,      \* self.retry_config
    now,               \* time.time(), in whole seconds
    run,               \* per coroutine: its locals and its position
    result,            \* per coroutine: what the caller received
    calls,             \* per coroutine: log of collaborator invocations
    sleeps,            \* per coroutine: log of backoff sleeps
    inflight,          \* per coroutine: collaborator calls not yet finished
    faults,            \* failed attempts injected so far
    world              \* the environment of this behaviour (a name of
                       \* Worlds): how many coroutines the caller starts,
                       \* how many attempts the collaborators fail, what
                       \* they may return

vars == <<agent_status, pipeline_metrics, error_history, retry_config, now,
          run, result, calls, sleeps, inflight, faults, world>>

\* ------------------------------------------------------------ enumerations
\* class AgentStatus
IDLE == "idle"
RUNNING == "running"
COMPLETED == "completed"
FAILED == "failed"
TIMEOUT == "timeout"
AgentStatus == {IDLE, RUNNING, COMPLETED, FAILED, TIMEOUT}

\* class PipelineStage
RETRIEVAL == "retrieval"
SUMMARIZATION == "summarization"
CITATION == "citation"
GENERATION == "generation"
ANALYTICS == "analytics"
PipelineStage == {RETRIEVAL, SUMMARIZATION, CITATION, GENERATION, ANALYTICS}

\* The order of the awaits in supervise_research_pipeline.
StageOrder == <<RETRIEVAL, SUMMARIZATION, CITATION, GENERATION, ANALYTICS>>

None == "None"
\* A local that holds no value yet.
Nil == [nil |-> TRUE]

\* A pipeline id is "pipeline_<int(pipeline_start)>": the whole second.
PipelineIds == 0..MaxTime

\* ------------------------------------------------------------------ values
\* A text is a sequence of tokens: "w" a word, "m" a citation placeholder
\* such as [1], "c" a rendered in-text citation such as (Smith, 2020).
Queries == { <<"w">>, <<"w", "m">> }
Styles == {"apa"}

\* A paper record; the second paper of a list has no 'authors' key.
\* is_dict: the record is a dict (it has .get); sized: len() of its authors
\* value is defined.
Paper(i) == [id |-> i, authors |-> <<"a">>, has_authors |-> i # 2,
             is_dict |-> TRUE, sized |-> TRUE]
PaperList(n) == [i \in 1..n |-> Paper(i)]
\* Retrieval returns no paper or MaxPapers papers.
PaperLists == { PaperList(n) : n \in {0, MaxPapers} }

\* Malformed records: an 'authors' value that is no list (a number), and an
\* element of the list that is no dict (None).
BadAuthors(i) == [Paper(i) EXCEPT !.has_authors = TRUE, !.sized = FALSE]
NotADict(i) == [Paper(i) EXCEPT !.has_authors = FALSE, !.is_dict = FALSE]

\* Lists that put reference formatting to work: more papers than the limit,
\* and lists of MaxPapers + 1 papers with one malformed record in the middle.
LongList == PaperList(RefLimit + 1)
MalformedLists ==
    { [PaperList(MaxPapers + 1) EXCEPT ![MaxPapers] = BadAuthors(MaxPapers)],
      [PaperList(MaxPapers + 1) EXCEPT ![MaxPapers] = NotADict(MaxPapers)] }

\* What the collaborators return when they return.
RealSummaries == [individual_summaries |-> <<"s">>,
                  thematic_summary |-> [text |-> "w", n |-> 0],
                  key_findings |-> <<"f">>, methodology_summary |-> "m"]
RealCitations == [formatted_citations |-> "f", in_text_citations |-> <<"i">>,
                  bibliography |-> <<"b">>, citation_network |-> "n"]
RealAnalytics == [paper_metrics |-> "real", source_analysis |-> [total_sources |-> 0]]
\* A draft's sections dict is a sequence of (name, content) items in
\* insertion order; sections_is_dict: draft['sections'] has .items().
Drafts == { [title |-> <<"w">>, abstract |-> <<"w", "m">>,
             sections |-> << [name |-> "introduction", content |-> <<"m", "w">>] >>,
             sections_is_dict |-> TRUE],
            [title |-> <<"w">>, abstract |-> <<>>,
             sections |-> << [name |-> "introduction", content |-> <<"w">>] >>,
             sections_is_dict |-> TRUE] }

\* A draft whose 'sections' value is a list of texts, not a dict.
SectionsListDraft ==
    [title |-> <<"w">>, abstract |-> <<"w", "m">>,
     sections |-> << [name |-> "0", content |-> <<"m", "w">>] >>,
     sections_is_dict |-> FALSE]

OneDraft == {CHOOSE d \in Drafts : d.abstract # <<>>}

\* The three worlds have one caller or several, and trade the depth of the
\* retry policy against the variety of what the collaborators return.
\*
\* One caller whose run is over within the second of its start; up to
\* MaxRetries retries, and enough failures to exhaust them in one stage.
DeepWorld ==
    [runs |-> 1, horizon |-> 0, faults |-> MaxRetries + 1, retries |-> 0..MaxRetries,
     queries |-> {<<"w">>}, papers |-> {PaperList(0), PaperList(1)},
     drafts |-> OneDraft]

\* One caller whose run may last into the next second; few retries, enough
\* failures to exhaust them in every later stage, and collaborators that
\* return anything.
WideWorld ==
    [runs |-> 1, horizon |-> 1, faults |-> MaxFaults, retries |-> 0..FewRetries,
     queries |-> Queries, papers |-> PaperLists, drafts |-> Drafts]

\* Concurrent callers, collaborators that fail seldom and return one value
\* each (retrieval: no paper or one paper).
SharedWorld ==
    [runs |-> MaxRuns, horizon |-> MaxTime, faults |-> MaxSharedFaults,
     retries |-> 0..FewRetries,
     queries |-> {<<"w">>},
     papers |-> {PaperList(0), PaperList(1)}, drafts |-> OneDraft]

\* One caller whose collaborators never fail and whose retrieval returns the
\* long list or a list with a malformed record, and whose generator returns
\* a well-formed draft or one with a list of sections.
RefsWorld ==
    [runs |-> 1, horizon |-> 1, faults |-> 0, retries |-> {0},
     queries |-> {<<"w">>}, papers |-> {LongList} \cup MalformedLists,
     drafts |-> OneDraft \cup {SectionsListDraft}]

Worlds == [deep |-> DeepWorld, wide |-> WideWorld, shared |-> SharedWorld,
           refs |-> RefsWorld]

World == Worlds[world]

Returns(stage) ==
    CASE stage = RETRIEVAL -> World.papers
      [] stage = SUMMARIZATION -> {RealSummaries}
      [] stage = CITATION -> {RealCitations}
      [] stage = GENERATION -> World.drafts
      [] stage = ANALYTICS -> {RealAnalytics}

\* ----------------------------------------------------------- bookkeeping
NoStatus == [s \in PipelineStage |-> None]

\* _update_agent_status
update_agent_status(as, pipeline_id, stage, status) ==
    [as EXCEPT ![pipeline_id][stage] = status]

\* _record_error
record_error(pm, pipeline_id, stage, error) ==
    IF pm[pipeline_id].exists
    THEN [pm EXCEPT ![pipeline_id].errors = Append(@, [stage |-> stage, error |-> error])]
    ELSE pm

\* _get_current_stage
get_current_stage(pm, pipeline_id) ==
    IF pm[pipeline_id].exists
    THEN LET stages == pm[pipeline_id].stages_completed
         IN  IF stages # <<>> THEN stages[Len(stages)] ELSE "initialization"
    ELSE "unknown"

\* The dict assigned to self.pipeline_metrics[pipeline_id] at the start.
\* total_time is -1 while the key is absent.
NewMetrics(pipeline_start, query) ==
    [exists |-> TRUE, start_time |-> pipeline_start, query |-> query,
     stages_completed |-> <<>>, errors |-> <<>>, retries |-> 0, total_papers |-> 0,
     total_time |-> -1]

\* A pipeline id that is no key of self.pipeline_metrics.
NoMetrics == [NewMetrics(0, <<>>) EXCEPT !.exists = FALSE]

\* The append is forgotten.
StageCompleted_Forgotten(pm, pipeline_id, stage) == pm

\* stages_completed.append(stage.value)
StageCompleted(pm, pipeline_id, stage) ==
    [pm EXCEPT ![pipeline_id].stages_completed = Append(@, stage)]

\* get_pipeline_status
get_pipeline_status(pipeline_id) ==
    [metrics |-> pipeline_metrics[pipeline_id],
     agent_status |-> agent_status[pipeline_id],
     error_history |-> SelectSeq(error_history, LAMBDA e : e.pipeline_id = pipeline_id)]

\* The keys of self.pipeline_metrics.
MetricsKeys == {p \in PipelineIds : pipeline_metrics[p].exists}

RECURSIVE SumTotalTime(_)
\* sum(p.get('total_time', 0) for p in self.pipeline_metrics.values())
SumTotalTime(keys) ==
    IF keys = {} THEN 0
    ELSE LET p == CHOOSE k \in keys : TRUE
             t == pipeline_metrics[p].total_time
         IN  (IF t = -1 THEN 0 ELSE t) + SumTotalTime(keys \ {p})

\* get_system_health; a quotient a / b is the pair [num |-> a, den |-> b],
\* and 0.0 is [num |-> 0, den |-> 1].
get_system_health ==
    LET total_pipelines == Cardinality(MetricsKeys)
        successful_pipelines ==
            Cardinality({p \in MetricsKeys : Len(pipeline_metrics[p].errors) = 0})
    IN  [total_pipelines |-> total_pipelines,
         successful_pipelines |-> successful_pipelines,
         success_rate |-> IF total_pipelines > 0
                          THEN [num |-> successful_pipelines, den |-> total_pipelines]
                          ELSE [num |-> 0, den |-> 1],
         total_errors |-> Len(error_history),
         active_pipelines |->
            Cardinality({p \in PipelineIds :
                \E stage \in PipelineStage : agent_status[p][stage] = RUNNING}),
         average_processing_time |->
            IF total_pipelines > 0
            THEN [num |-> SumTotalTime(MetricsKeys), den |-> total_pipelines]
            ELSE [num |-> 0, den |-> 1]]

\* ------------------------------------------------------------ the executor
\* The delay of the asyncio.sleep after failed attempt number `attempt`.
BackoffDelay(retry_delay, attempt) == retry_delay * (attempt + 1)

\* The text of the error recorded for a failed attempt.
AttemptError(kind, attempt) ==
    IF kind = "timeout" THEN [text |-> "Timeout on attempt", n |-> attempt + 1]
    ELSE [text |-> "Attempt", n |-> attempt + 1]

\* What _execute_with_retry raises when the last attempt fails: a new
\* exception after a timeout, the collaborator's own exception otherwise.
Exhausted(kind, stage, max_retries) ==
    IF kind = "timeout"
    THEN [exc |-> "timed out after attempts", stage |-> stage, attempts |-> max_retries + 1]
    ELSE [exc |-> "collaborator error", stage |-> None, attempts |-> 0]

\* ---------------------------------------------------------------- fallbacks
FallbackSummaries(papers) ==
    [individual_summaries |-> <<>>,
     thematic_summary |-> [text |-> "Analysis of n papers", n |-> Len(papers)],
     key_findings |-> <<>>, methodology_summary |-> "{}"]

FallbackCitations ==
    [formatted_citations |-> "{}", in_text_citations |-> <<>>,
     bibliography |-> <<>>, citation_network |-> "{}"]

\* title "<query>: Research Analysis", abstract "This paper analyzes <query>
\* based on available research literature."
FallbackDraft(query) ==
    [title |-> query \o <<"w">>, abstract |-> <<"w">> \o query \o <<"w">>,
     sections |-> <<>>, sections_is_dict |-> TRUE]

\* The source count is left at its default.
FallbackAnalytics_NoCount(papers) ==
    [paper_metrics |-> "minimal", source_analysis |-> [total_sources |-> 0]]

FallbackAnalytics(papers) ==
    [paper_metrics |-> "minimal", source_analysis |-> [total_sources |-> Len(papers)]]

Fallback(stage, query, papers) ==
    CASE stage = SUMMARIZATION -> FallbackSummaries(papers)
      [] stage = CITATION -> FallbackCitations
      [] stage = GENERATION -> FallbackDraft(query)
      [] stage = ANALYTICS -> FallbackAnalytics(papers)

\* ------------------------------------------------- collaborators' sub-steps
\* CitationAgent.replace_citation_placeholders: every placeholder becomes a
\* rendered citation "(...)"; in the ieee style it is written back as "[n]".
replace_citation_placeholders(text, papers, citation_style) ==
    [i \in DOMAIN text |->
        IF text[i] = "m" /\ citation_style # "ieee" THEN "c" ELSE text[i]]

\* _supervise_citation_replacement.  The draft is rewritten in place: when
\* draft['sections'].items() raises, the except clause returns the draft
\* with the abstract already replaced.
supervise_citation_replacement(draft, papers, citation_style) ==
    LET abstract == IF draft.abstract # <<>>
                    THEN replace_citation_placeholders(draft.abstract, papers, citation_style)
                    ELSE draft.abstract
        sections == IF draft.sections_is_dict
                    THEN [i \in DOMAIN draft.sections |->
                            [draft.sections[i] EXCEPT !.content =
                                replace_citation_placeholders(@, papers, citation_style)]]
                    ELSE draft.sections
    IN  [draft EXCEPT !.abstract = abstract, !.sections = sections]

Min(a, b) == IF a <= b THEN a ELSE b

\* paper.get('authors', ['Unknown Author'])
GetAuthors(paper) == IF paper.has_authors THEN paper.authors ELSE <<"Unknown Author">>

\* The body of the inner try raises: paper.get on a record that is no dict,
\* len(authors) on an authors value that has no length.
FormattingRaises(paper) == ~paper.is_dict \/ (paper.has_authors /\ ~paper.sized)

\* The inner except clause calls paper.get again.
HandlerRaises(paper) == ~paper.is_dict

\* ref_entry of the inner try; formatted_citation is "<authors> (<year>).
\* <title>."
FullReference(i, paper) ==
    [id |-> i, number |-> i, title |-> paper.id, authors |-> GetAuthors(paper),
     formatted_citation |-> "full"]

\* The entry of the inner except clause; formatted_citation is
\* "Reference <i>: <title>".
MinimalReference(i, paper) ==
    [id |-> i, number |-> i, title |-> paper.id, authors |-> GetAuthors(paper),
     formatted_citation |-> "minimal"]

\* _supervise_reference_formatting: an exception of the inner except clause
\* reaches the outer one, which returns [].
supervise_reference_formatting(papers) ==
    LET first == SubSeq(papers, 1, Min(Len(papers), RefLimit))
    IN  IF \E i \in DOMAIN first : FormattingRaises(first[i]) /\ HandlerRaises(first[i])
        THEN <<>>
        ELSE [i \in DOMAIN first |->
                IF FormattingRaises(first[i]) THEN MinimalReference(i, first[i])
                ELSE FullReference(i, first[i])]

\* ------------------------------------------------------------ control flow
\* Off by one: the last retry is never made.
HasAttemptsLeft_OneLess(attempt, max_retries) == attempt + 1 < max_retries

\* The executor never gives up.
HasAttemptsLeft_Always(attempt, max_retries) == TRUE

\* `if attempt < max_retries` in both except clauses of _execute_with_retry.
HasAttemptsLeft(attempt, max_retries) == attempt < max_retries

\* The except clause of _supervise_analytics re-raises as well.
IsFatal_AnalyticsToo(stage) == stage \in {RETRIEVAL, ANALYTICS}

\* The except clause of _supervise_summarization re-raises as well.
IsFatal_SummarizationToo(stage) == stage \in {RETRIEVAL, SUMMARIZATION}

\* _supervise_retrieval re-raises; the other wrappers return a fallback.
IsFatal(stage) == stage = RETRIEVAL

\* Generation is awaited before citation.
NextStage_Swapped(stage) ==
    CASE stage = RETRIEVAL -> SUMMARIZATION
      [] stage = SUMMARIZATION -> GENERATION
      [] stage = GENERATION -> CITATION
      [] stage = CITATION -> ANALYTICS

\* Summarization is left out.
NextStage_SkipSummarization(stage) ==
    CASE stage = RETRIEVAL -> CITATION
      [] stage = SUMMARIZATION -> CITATION
      [] stage = CITATION -> GENERATION
      [] stage = GENERATION -> ANALYTICS

\* The stage awaited after `stage` in supervise_research_pipeline.
NextStage(stage) ==
    CASE stage = RETRIEVAL -> SUMMARIZATION
      [] stage = SUMMARIZATION -> CITATION
      [] stage = CITATION -> GENERATION
      [] stage = GENERATION -> ANALYTICS

\* The local variable of supervise_research_pipeline a stage's value goes to.
Bind(frame, stage, value) ==
    CASE stage = RETRIEVAL -> [frame EXCEPT !.papers = value]
      [] stage = SUMMARIZATION -> [frame EXCEPT !.summaries = value]
      [] stage = CITATION -> [frame EXCEPT !.citations = value]
      [] stage = GENERATION ->
            [frame EXCEPT !.draft =
                supervise_citation_replacement(value, frame.papers, frame.citation_style)]
      [] stage = ANALYTICS ->
            [frame EXCEPT !.analytics = value,
                          !.references = supervise_reference_formatting(frame.papers)]

\* The dict returned at the end of the try block.
SuccessResult(frame, metrics, total_time) ==
    [status |-> "success", pipeline_id |-> frame.pipeline_id, query |-> frame.query,
     papers |-> frame.papers, summaries |-> frame.summaries,
     citations |-> frame.citations, draft |-> frame.draft,
     analytics |-> frame.analytics, references |-> frame.references,
     error |-> Nil, supervisor_metrics |-> metrics, processing_time |-> total_time]

\* The except clause logs the failure and raises it again.
ErrorResult_Reraise(frame, exc, metrics, total_time) ==
    [status |-> "raised", pipeline_id |-> frame.pipeline_id, query |-> frame.query,
     papers |-> Nil, summaries |-> Nil, citations |-> Nil, draft |-> Nil,
     analytics |-> Nil, references |-> Nil,
     error |-> exc, supervisor_metrics |-> metrics, processing_time |-> total_time]

\* The dict returned by the except clause of supervise_research_pipeline:
\* status, pipeline_id, query, error (the text of the exception),
\* supervisor_metrics and processing_time.  It has no key for a stage.
ErrorResult(frame, exc, metrics, total_time) ==
    [status |-> "error", pipeline_id |-> frame.pipeline_id, query |-> frame.query,
     papers |-> Nil, summaries |-> Nil, citations |-> Nil, draft |-> Nil,
     analytics |-> Nil, references |-> Nil,
     error |-> exc, supervisor_metrics |-> metrics, processing_time |-> total_time]

NoResult == [status |-> "pending"]

\* One entry of the log of a run: `ev` is "begin" when wait_for starts the
\* collaborator, "return", "raise" or "timeout" when the attempt ends, "step"
\* for a sub-step that is not retried; `exec` is what _execute_with_retry
\* does next: "running" (this or another attempt), "returned" or "raised".
Event(stage, ev, attempt, exec) ==
    [stage |-> stage, ev |-> ev, attempt |-> attempt, exec |-> exec]

CITATION_REPLACEMENT == "citation_replacement"
REFERENCE_FORMATTING == "reference_formatting"

\* The sub-step that follows a stage inside the same atomic piece of code.
SubSteps(stage) ==
    CASE stage = GENERATION -> <<Event(CITATION_REPLACEMENT, "step", 0, "returned")>>
      [] stage = ANALYTICS -> <<Event(REFERENCE_FORMATTING, "step", 0, "returned")>>
      [] OTHER -> <<>>

\* The asyncio.wait_for of one attempt has ended: the collaborator call it
\* wrapped is finished or cancelled.
EndCall(flying, stage) == flying \ {stage}

IdleFrame ==
    [pc |-> "idle", pipeline_id |-> 0, pipeline_start |-> 0, query |-> <<>>,
     citation_style |-> "apa", stage |-> RETRIEVAL, attempt |-> 0,
     papers |-> <<>>, summaries |-> Nil, citations |-> Nil, draft |-> Nil,
     analytics |-> Nil, references |-> <<>>]

InitIn(w) ==
    /\ world = w
    /\ agent_status = [p \in PipelineIds |-> NoStatus]
    /\ pipeline_metrics = [p \in PipelineIds |-> NoMetrics]
    /\ error_history = <<>>
    /\ retry_config \in [max_retries : Worlds[w].retries, retry_delay : {RetryDelay}]
    /\ now = 0
    /\ run = [r \in Runs |-> IdleFrame]
    /\ result = [r \in Runs |-> NoResult]
    /\ calls = [r \in Runs |-> <<>>]
    /\ sleeps = [r \in Runs |-> <<>>]
    /\ inflight = [r \in Runs |-> {}]
    /\ faults = 0

Init == InitIn("shared")

InitRun == InitIn("deep") \/ InitIn("wide") \/ InitIn("refs")

InitLive == InitIn("deep") \/ InitIn("refs")

\* time.time() moves on.
Tick ==
    /\ now < World.horizon
    /\ now' = now + 1
    /\ UNCHANGED <<agent_status, pipeline_metrics, error_history, retry_config,
                   run, result, calls, sleeps, inflight, faults, world>>

\* supervise_research_pipeline up to the first await that suspends: the
\* metrics dict is (re)created and retrieval's first attempt is started.
Start(r, q, style) ==
    /\ run[r].pc = "idle"
    /\ r <= World.runs
    /\ IF r = 1 THEN TRUE ELSE run[r - 1].pc # "idle"
    /\ q \in World.queries
    /\ LET pipeline_start == now
           pipeline_id == now
       IN  /\ pipeline_metrics' =
                [pipeline_metrics EXCEPT ![pipeline_id] = NewMetrics(pipeline_start, q)]
           /\ agent_status' =
                update_agent_status(agent_status, pipeline_id, RETRIEVAL, RUNNING)
           /\ run' = [run EXCEPT ![r] =
                [@ EXCEPT !.pc = "calling", !.pipeline_id = pipeline_id,
                          !.pipeline_start = pipeline_start, !.query = q,
                          !.citation_style = style, !.stage = RETRIEVAL,
                          !.attempt = 0]]
    /\ calls' = [calls EXCEPT ![r] = Append(@, Event(RETRIEVAL, "begin", 0, "running"))]
    /\ inflight' = [inflight EXCEPT ![r] = @ \cup {RETRIEVAL}]
    /\ UNCHANGED <<error_history, retry_config, now, result, sleeps, faults, world>>

\* The stage wrapper has a value for `stage` (the collaborator's or the
\* fallback): bind it and run on to the next await, or to the final return.
Proceed(r, stage, value, as1, pm1, ev) ==
    LET frame == Bind(run[r], stage, value)
        pid == run[r].pipeline_id
    IN  /\ error_history' = error_history
        /\ IF stage = ANALYTICS
           THEN LET total_time == now - frame.pipeline_start
                    pm2 == [pm1 EXCEPT ![pid].total_time = total_time,
                                       ![pid].total_papers = Len(frame.papers)]
                IN  /\ pipeline_metrics' = pm2
                    /\ agent_status' = as1
                    /\ run' = [run EXCEPT ![r] = [frame EXCEPT !.pc = "done"]]
                    /\ result' = [result EXCEPT ![r] =
                            SuccessResult(frame, pm2[pid], total_time)]
                    /\ calls' = [calls EXCEPT ![r] = @ \o <<ev>> \o SubSteps(stage)]
                    /\ inflight' = [inflight EXCEPT ![r] = EndCall(@, stage)]
           ELSE LET next == NextStage(stage)
                IN  /\ pipeline_metrics' = pm1
                    /\ agent_status' = update_agent_status(as1, pid, next, RUNNING)
                    /\ run' = [run EXCEPT ![r] =
                            [frame EXCEPT !.pc = "calling", !.stage = next,
                                          !.attempt = 0]]
                    /\ result' = result
                    /\ calls' = [calls EXCEPT ![r] =
                            @ \o <<ev>> \o SubSteps(stage)
                              \o <<Event(next, "begin", 0, "running")>>]
                    /\ inflight' = [inflight EXCEPT ![r] =
                            EndCall(@, stage) \cup {next}]

\* An exception reaches the except clause of supervise_research_pipeline.
Abort(r, exc, as1, pm1, ev) ==
    LET frame == run[r]
        total_time == now - frame.pipeline_start
    IN  /\ error_history' = Append(error_history,
                [pipeline_id |-> frame.pipeline_id, error |-> exc,
                 stage |-> get_current_stage(pm1, frame.pipeline_id),
                 duration |-> total_time])
        /\ pipeline_metrics' = pm1
        /\ agent_status' = as1
        /\ run' = [run EXCEPT ![r].pc = "done"]
        /\ result' = [result EXCEPT ![r] =
                ErrorResult(frame, exc, pm1[frame.pipeline_id], total_time)]
        /\ calls' = [calls EXCEPT ![r] = Append(@, ev)]
        /\ inflight' = [inflight EXCEPT ![r] = EndCall(@, frame.stage)]

\* The collaborator returns a value within timeout_seconds.
AttemptReturns(r) ==
    /\ run[r].pc = "calling"
    /\ \E value \in Returns(run[r].stage) :
       LET stage == run[r].stage
           pid == run[r].pipeline_id
           ev == Event(stage, "return", run[r].attempt, "returned")
       IN  IF stage = RETRIEVAL /\ value = <<>>
           THEN Abort(r, [exc |-> "No papers retrieved from any source",
                          stage |-> None, attempts |-> 0],
                      update_agent_status(agent_status, pid, stage, FAILED),
                      pipeline_metrics, ev)
           ELSE Proceed(r, stage, value,
                        update_agent_status(agent_status, pid, stage, COMPLETED),
                        StageCompleted(pipeline_metrics, pid, stage), ev)
    /\ UNCHANGED <<retry_config, now, sleeps, faults, world>>

\* An attempt fails: kind "timeout" for asyncio.TimeoutError, "raise" for any
\* other exception.
AttemptFails(r, kind) ==
    /\ run[r].pc = "calling"
    /\ faults < World.faults
    /\ faults' = faults + 1
    /\ LET stage == run[r].stage
           pid == run[r].pipeline_id
           attempt == run[r].attempt
           left == HasAttemptsLeft(attempt, retry_config.max_retries)
           ev == Event(stage, kind, attempt, IF left THEN "running" ELSE "raised")
           pm1 == record_error(pipeline_metrics, pid, stage, AttemptError(kind, attempt))
       IN  IF left
           THEN /\ pipeline_metrics' = pm1
                /\ run' = [run EXCEPT ![r].pc = "sleeping"]
                /\ sleeps' = [sleeps EXCEPT ![r] =
                        Append(@, [stage |-> stage, attempt |-> attempt,
                                   delay |-> BackoffDelay(retry_config.retry_delay, attempt)])]
                /\ calls' = [calls EXCEPT ![r] = Append(@, ev)]
                /\ inflight' = [inflight EXCEPT ![r] = EndCall(@, stage)]
                /\ UNCHANGED <<agent_status, error_history, result>>
           ELSE /\ sleeps' = sleeps
                /\ LET as1 == update_agent_status(agent_status, pid, stage, FAILED)
                   IN  IF IsFatal(stage)
                       THEN Abort(r, Exhausted(kind, stage, retry_config.max_retries),
                                  as1, pm1, ev)
                       ELSE Proceed(r, stage,
                                    Fallback(stage, run[r].query, run[r].papers),
                                    as1, pm1, ev)
    /\ UNCHANGED <<retry_config, now, world>>

AttemptRaises(r) == AttemptFails(r, "raise")

AttemptTimesOut(r) == AttemptFails(r, "timeout")

\* The backoff sleep is over: the next attempt is started.
BackoffElapses(r) ==
    /\ run[r].pc = "sleeping"
    /\ run' = [run EXCEPT ![r].pc = "calling", ![r].attempt = @ + 1]
    /\ calls' = [calls EXCEPT ![r] =
            Append(@, Event(run[r].stage, "begin", run[r].attempt + 1, "running"))]
    /\ inflight' = [inflight EXCEPT ![r] = @ \cup {run[r].stage}]
    /\ UNCHANGED <<agent_status, pipeline_metrics, error_history, retry_config,
                   now, result, sleeps, faults, world>>

Next ==
    \/ Tick
    \/ \E r \in Runs, q \in Queries, style \in Styles : Start(r, q, style)
    \/ \E r \in Runs : AttemptReturns(r)
    \/ \E r \in Runs : AttemptRaises(r)
    \/ \E r \in Runs : AttemptTimesOut(r)
    \/ \E r \in Runs : BackoffElapses(r)

\* Concurrent runs on one supervisor.
Spec == Init /\ [][Next]_vars

\* One run, every mix of outcomes of its collaborators.
SpecRun == InitRun /\ [][Next]_vars

\* asyncio.wait_for ends every attempt: the collaborator returns or raises,
\* or the timer of timeout_seconds fires.
AttemptEnds(r) == AttemptReturns(r) \/ AttemptRaises(r) \/ AttemptTimesOut(r)

\* One run under the fairness of the event loop: a pending wait_for and a
\* pending asyncio.sleep do end.  Nothing obliges the caller to start a run.
SpecLive ==
    /\ InitLive /\ [][Next]_vars
    /\ \A r \in Runs : WF_vars(AttemptEnds(r)) /\ WF_vars(BackoffElapses(r))

\* ================================================================ properties
\* The entries of a run's log that belong to one stage.
StageEvents(r, stage) == SelectSeq(calls[r], LAMBDA e : e.stage = stage)

CountEv(evs, kinds) == Cardinality({i \in DOMAIN evs : evs[i].ev \in kinds})

\* _execute_with_retry has raised / returned for this stage of this run.
Raised(r, stage) == \E i \in DOMAIN calls[r] :
    calls[r][i].stage = stage /\ calls[r][i].exec = "raised"

ReturnedFrom(r, stage) == \E i \in DOMAIN calls[r] :
    calls[r][i].stage = stage /\ calls[r][i].ev = "return"

Invoked(r, stage) == \E i \in DOMAIN calls[r] :
    calls[r][i].stage = stage /\ calls[r][i].ev = "begin"

RECURSIVE Pow2(_)
Pow2(k) == IF k = 0 THEN 1 ELSE 2 * Pow2(k - 1)

\* C1: with max_retries = n, an operation that fails on every attempt (by
\* raising or by timing out, in any mix) is invoked exactly n+1 times and then
\* _execute_with_retry raises; it never returns a result, and no operation is
\* ever invoked more than n+1 times.
C1_AllAttemptsThenRaise ==
    \A r \in Runs, stage \in PipelineStage :
        LET evs == StageEvents(r, stage)
            n == retry_config.max_retries
            begins == CountEv(evs, {"begin"})
            fails == CountEv(evs, {"raise", "timeout"})
            returns == CountEv(evs, {"return"})
            over == evs # <<>> /\ evs[Len(evs)].exec # "running"
        IN  /\ begins <= n + 1
            /\ (over /\ returns = 0) =>
                    /\ begins = n + 1
                    /\ fails = n + 1
                    /\ evs[Len(evs)].exec = "raised"
            /\ fails = n + 1 => (over /\ returns = 0 /\ evs[Len(evs)].exec = "raised")
            /\ Raised(r, stage) => fails = n + 1

\* C1 witness: a stage has exhausted a policy with at least two retries after
\* both a raised failure and a timeout.
C1_Witness ==
    \E r \in Runs, stage \in PipelineStage :
        /\ retry_config.max_retries >= 2
        /\ Raised(r, stage)
        /\ CountEv(StageEvents(r, stage), {"raise"}) >= 1
        /\ CountEv(StageEvents(r, stage), {"timeout"}) >= 1

\* C2: after failed attempt k (0-indexed, k < max_retries) the executor sleeps
\* base_delay * 2^k before attempt k+1.
C2_ExponentialBackoff ==
    \A r \in Runs : \A i \in DOMAIN sleeps[r] :
        sleeps[r][i].delay = retry_config.retry_delay * Pow2(sleeps[r][i].attempt)

\* C2 (as the code has it): the delay after failed attempt k is
\* retry_delay * (k + 1).
C2_LinearBackoff ==
    \A r \in Runs : \A i \in DOMAIN sleeps[r] :
        sleeps[r][i].delay = retry_config.retry_delay * (sleeps[r][i].attempt + 1)

Done(r) == run[r].pc = "done"

LaterStages == PipelineStage \ {RETRIEVAL}

\* What get_pipeline_status reports as stages_completed for the run.
ReportedStages(r) == get_pipeline_status(run[r].pipeline_id).metrics.stages_completed

\* C3: when retrieval exhausts its retries the run ends with an error result,
\* no later stage's collaborator is invoked, and get_pipeline_status reports
\* an empty stages_completed for the run.
C3_RetrievalExhaustedAborts ==
    \A r \in Runs :
        (Done(r) /\ Raised(r, RETRIEVAL)) =>
            /\ result[r].status = "error"
            /\ \A stage \in LaterStages : ~Invoked(r, stage)
            /\ ReportedStages(r) = <<>>

\* Retrieval returned an empty list to this run.
RetrievedNothing(r) == ReturnedFrom(r, RETRIEVAL) /\ run[r].papers = <<>>

\* C4: when retrieval returns an empty list the run is aborted with an error
\* result: retrieval is marked failed, stages_completed stays empty and no
\* later collaborator is invoked.
C4_EmptyRetrievalAborts ==
    \A r \in Runs :
        (Done(r) /\ RetrievedNothing(r)) =>
            /\ result[r].status = "error"
            /\ get_pipeline_status(run[r].pipeline_id).agent_status[RETRIEVAL] = FAILED
            /\ ReportedStages(r) = <<>>
            /\ \A stage \in LaterStages : ~Invoked(r, stage)

\* C5: only retrieval ends a run early.  Once retrieval has returned a
\* non-empty list the run ends with status success and a value in every
\* field, whatever the later stages do; an error result means that nothing
\* but retrieval was ever invoked.
C5_OnlyRetrievalIsFatal ==
    \A r \in Runs :
        Done(r) =>
            /\ (ReturnedFrom(r, RETRIEVAL) /\ ~RetrievedNothing(r)) =>
                    /\ result[r].status = "success"
                    /\ result[r].papers # <<>>
                    /\ result[r].summaries # Nil
                    /\ result[r].citations # Nil
                    /\ result[r].draft # Nil
                    /\ result[r].analytics # Nil
                    /\ Len(result[r].references) \in 0..RefLimit
            /\ result[r].status = "error" =>
                    /\ \A stage \in LaterStages : ~Invoked(r, stage)
                    /\ Raised(r, RETRIEVAL) \/ RetrievedNothing(r)

\* C5 witness: a run has ended in success although summarization, citation,
\* generation and analytics all exhausted their retries.
C5_Witness ==
    \E r \in Runs :
        /\ Done(r) /\ result[r].status = "success"
        /\ \A stage \in LaterStages : Raised(r, stage)

\* C6: the caller receives a success result or an error result and nothing
\* else: no exception leaves supervise_research_pipeline.
C6_NoExceptionEscapes ==
    \A r \in Runs :
        /\ result[r].status \in {"pending", "success", "error"}
        /\ Done(r) <=> result[r].status \in {"success", "error"}

\* C6 witness: in one run a collaborator has timed out, another has raised,
\* and the caller has its result.
C6_Witness ==
    \E r \in Runs :
        /\ Done(r)
        /\ \E i, j \in DOMAIN calls[r] :
                calls[r][i].ev = "raise" /\ calls[r][j].ev = "timeout"

\* C7: when summarization exhausts its retries the run still invokes
\* analytics and ends in success, and the summaries of the result are the
\* minimal skeleton: not null, no key findings.
C7_SummarizationFallback ==
    \A r \in Runs :
        (Done(r) /\ Raised(r, SUMMARIZATION)) =>
            /\ Invoked(r, ANALYTICS)
            /\ result[r].status = "success"
            /\ result[r].summaries # Nil
            /\ result[r].summaries.key_findings = <<>>
            /\ result[r].summaries.individual_summaries = <<>>
            /\ result[r].summaries.thematic_summary.n = Len(result[r].papers)

C7_Witness ==
    \E r \in Runs :
        /\ Done(r) /\ Raised(r, SUMMARIZATION)
        /\ ReturnedFrom(r, ANALYTICS)

\* C8 (as claimed): after exhaustion of citation generation, paper generation
\* or analytics the field of the final result is exactly the fallback value.
C8_ExactFallbacks ==
    \A r \in Runs :
        (Done(r) /\ result[r].status = "success") =>
            /\ Raised(r, CITATION) =>
                    result[r].citations =
                        [formatted_citations |-> "{}", in_text_citations |-> <<>>,
                         bibliography |-> <<>>, citation_network |-> "{}"]
            /\ Raised(r, GENERATION) =>
                    result[r].draft =
                        [title |-> run[r].query \o <<"w">>,
                         abstract |-> <<"w">> \o run[r].query \o <<"w">>,
                         sections |-> <<>>, sections_is_dict |-> TRUE]
            /\ Raised(r, ANALYTICS) =>
                    /\ result[r].analytics.paper_metrics = "minimal"
                    /\ result[r].analytics.source_analysis.total_sources
                            = Len(result[r].papers)

\* C8 (amended): as claimed for citations and analytics; the draft is the
\* fallback draft as citation replacement leaves it: the fallback title, no
\* sections, and the fallback abstract in which a citation placeholder taken
\* over from the query may have been rendered.  Without a placeholder in the
\* query it is exactly the fallback draft.
C8_FallbacksAfterReplacement ==
    \A r \in Runs :
        (Done(r) /\ result[r].status = "success") =>
            /\ Raised(r, CITATION) =>
                    result[r].citations =
                        [formatted_citations |-> "{}", in_text_citations |-> <<>>,
                         bibliography |-> <<>>, citation_network |-> "{}"]
            /\ Raised(r, GENERATION) =>
                    LET d == result[r].draft
                        abstract == <<"w">> \o run[r].query \o <<"w">>
                    IN  /\ d.title = run[r].query \o <<"w">>
                        /\ d.sections = <<>>
                        /\ Len(d.abstract) = Len(abstract)
                        /\ \A i \in DOMAIN abstract :
                                \/ d.abstract[i] = abstract[i]
                                \/ abstract[i] = "m" /\ d.abstract[i] = "c"
                        /\ (\A i \in DOMAIN run[r].query : run[r].query[i] # "m")
                                => d.abstract = abstract
            /\ Raised(r, ANALYTICS) =>
                    /\ result[r].analytics.paper_metrics = "minimal"
                    /\ result[r].analytics.source_analysis.total_sources
                            = Len(result[r].papers)

\* C8 witness: citation generation, paper generation and analytics have all
\* exhausted their retries in a run whose query holds a citation placeholder.
C8_Witness ==
    \E r \in Runs :
        /\ Done(r) /\ result[r].status = "success"
        /\ Raised(r, CITATION) /\ Raised(r, GENERATION) /\ Raised(r, ANALYTICS)
        /\ \E i \in DOMAIN run[r].query : run[r].query[i] = "m"

FullOrder == <<RETRIEVAL, SUMMARIZATION, CITATION, GENERATION, CITATION_REPLACEMENT,
               ANALYTICS, REFERENCE_FORMATTING>>

Position(stage) == CHOOSE i \in DOMAIN FullOrder : FullOrder[i] = stage

\* C9: the stages of a run execute one after the other in the fixed order:
\* a stage is first invoked only when the stage before it has finished
\* (returned, or raised for the last time), attempts of one stage do not
\* overlap, and at most one collaborator call of the run is in flight.
C9_StrictlySequential ==
    \A r \in Runs :
        /\ Cardinality(inflight[r]) <= 1
        /\ calls[r] # <<>> =>
                /\ calls[r][1].stage = RETRIEVAL
                /\ LET last == calls[r][Len(calls[r])]
                   IN  inflight[r] = IF last.ev = "begin" THEN {last.stage} ELSE {}
        /\ \A i \in 2..Len(calls[r]) :
                LET a == calls[r][i - 1]
                    b == calls[r][i]
                IN  IF b.stage = a.stage
                    THEN /\ a.exec = "running"
                         /\ b.ev = "begin" <=> a.ev # "begin"
                    ELSE /\ a.exec \in {"returned", "raised"}
                         /\ Position(b.stage) = Position(a.stage) + 1
                         /\ b.ev \in {"begin", "step"}

\* C9 witness: a run has gone through all seven steps and has retried one.
C9_Witness ==
    \E r \in Runs :
        /\ Done(r) /\ sleeps[r] # <<>>
        /\ \A p \in DOMAIN FullOrder :
                \E i \in DOMAIN calls[r] : calls[r][i].stage = FullOrder[p]

IsPrefix(a, b) == Len(a) <= Len(b) /\ \A i \in DOMAIN a : a[i] = b[i]

\* C10: for every run stages_completed only ever grows, and it holds only
\* names of stages whose supervised call returned a result for that run.
C10_StagesCompletedOnlyGrows ==
    /\ [](\A r \in Runs : run[r].pc # "idle" =>
            \A i \in DOMAIN ReportedStages(r) :
                ReturnedFrom(r, ReportedStages(r)[i]))
    /\ [][\A r \in Runs : run[r].pc # "idle" =>
            IsPrefix(ReportedStages(r), ReportedStages(r)')]_vars

\* What get_pipeline_status reports as metrics for the run.
ReportedMetrics(r) == get_pipeline_status(run[r].pipeline_id).metrics

\* Every attempt the run has made returned: no stage was retried.
CleanRun(r) ==
    \A i \in DOMAIN calls[r] : calls[r][i].ev \notin {"raise", "timeout"}

\* C11: when a run in which retrieval returned a non-empty list and every
\* stage succeeded on its first attempt returns its result, the run's metrics
\* hold stages_completed = [retrieval, summarization, citation, generation,
\* analytics] in that order, retries = 0 and no error.
C11_CleanRunMetrics ==
    [][\A r \in Runs :
        (~Done(r) /\ Done(r)' /\ CleanRun(r)' /\ result'[r].status = "success") =>
            /\ ReportedMetrics(r)'.stages_completed = StageOrder
            /\ ReportedMetrics(r)'.retries = 0
            /\ ReportedMetrics(r)'.errors = <<>>]_vars

\* The i-th reference is built from the i-th paper.
BuiltFrom(ref, i, paper) ==
    ref.number = i /\ ref.id = i /\ ref.title = paper.id

\* C12: for every retrieved paper list the references of the result are
\* exactly min(len(papers), 15) entries, and the i-th entry, numbered i, is
\* built from the i-th paper.
C12_ReferencesOneToOne ==
    \A r \in Runs :
        (Done(r) /\ result[r].status = "success") =>
            LET papers == result[r].papers
                refs == result[r].references
            IN  /\ Len(refs) = Min(Len(papers), RefLimit)
                /\ \A i \in DOMAIN refs : BuiltFrom(refs[i], i, papers[i])

\* C12 (lists of dicts only): when every one of the first 15 records is a
\* dict, the references are min(len(papers), 15) entries built one-to-one
\* and in order from the first 15 papers.
C12_DictRecordsOneToOne ==
    \A r \in Runs :
        (/\ Done(r) /\ result[r].status = "success"
         /\ \A i \in 1..Min(Len(result[r].papers), RefLimit) :
                result[r].papers[i].is_dict) =>
            LET papers == result[r].papers
                refs == result[r].references
            IN  /\ Len(refs) = Min(Len(papers), RefLimit)
                /\ \A i \in DOMAIN refs : BuiltFrom(refs[i], i, papers[i])

\* A record without an authors field, or one whose formatting raises.
Malformed(paper) == ~paper.has_authors \/ ~paper.is_dict \/ ~paper.sized

\* C13: a malformed record among the first 15 papers yields exactly one
\* minimal reference entry, at its own position, and every other paper is
\* still formatted: the list is never cut short or emptied.
C13_MalformedRecordDegrades ==
    \A r \in Runs :
        (Done(r) /\ result[r].status = "success") =>
            LET papers == result[r].papers
                refs == result[r].references
            IN  /\ Len(refs) = Min(Len(papers), RefLimit)
                /\ \A i \in DOMAIN refs :
                        /\ BuiltFrom(refs[i], i, papers[i])
                        /\ refs[i].formatted_citation =
                                IF Malformed(papers[i]) THEN "minimal" ELSE "full"

\* The kind of the failure that ended the last attempt of a stage.
LastFailure(r, stage) ==
    LET evs == StageEvents(r, stage) IN evs[Len(evs)].ev

\* C14: a stage whose attempts ended by exceeding timeout_seconds is reported
\* with status timeout, one whose attempts ended by raising with status
\* failed.
C14_TimeoutStatusDistinct ==
    \A r \in Runs, stage \in PipelineStage :
        Raised(r, stage) =>
            get_pipeline_status(run[r].pipeline_id).agent_status[stage] =
                IF LastFailure(r, stage) = "timeout" THEN TIMEOUT ELSE FAILED

\* C15: the metrics and the stage statuses reported for a run change only in
\* steps of that run: a step of another run leaves them as they are.
C15_NoLeakAcrossRuns ==
    [][\A r \in Runs :
        (run[r].pc # "idle" /\ run'[r] = run[r]) =>
            /\ pipeline_metrics'[run[r].pipeline_id] = pipeline_metrics[run[r].pipeline_id]
            /\ agent_status'[run[r].pipeline_id] = agent_status[run[r].pipeline_id]]_vars

\* C16: no two invocations of supervise_research_pipeline on one supervisor
\* have the same pipeline_id.
C16_UniquePipelineIds ==
    \A r1, r2 \in Runs :
        (r1 # r2 /\ run[r1].pc # "idle" /\ run[r2].pc # "idle") =>
            run[r1].pipeline_id # run[r2].pipeline_id

\* The error records the metrics of a run hold for one stage.
ErrorsOf(r, stage) == SelectSeq(ReportedMetrics(r).errors, LAMBDA e : e.stage = stage)

\* C17: after a stage has made k failed attempts (raised or timed out) in a
\* run, exactly k error records exist for that run and stage; an attempt that
\* returns records none.
C17_OneErrorPerFailedAttempt ==
    \A r \in Runs, stage \in PipelineStage :
        run[r].pc # "idle" =>
            Len(ErrorsOf(r, stage)) = CountEv(StageEvents(r, stage), {"raise", "timeout"})

\* C18: the error history get_pipeline_status returns for a run holds a record
\* for every failed or timed-out attempt of that run, and no record of another
\* run.
C18_ErrorHistoryHoldsAttempts ==
    \A r \in Runs :
        run[r].pc # "idle" =>
            LET history == get_pipeline_status(run[r].pipeline_id).error_history
            IN  /\ Len(history) >= CountEv(calls[r], {"raise", "timeout"})
                /\ \A i \in DOMAIN history : history[i].pipeline_id = run[r].pipeline_id

\* The runs invoked so far, and those of them with no recorded error.
Started == {r \in Runs : run[r].pc # "idle"}
WithoutError == {r \in Started : CleanRun(r)}

\* C19: once N >= 1 runs are over, successful_pipelines is the number of runs
\* with no recorded error and success_rate is that number divided by N: 0.0
\* when every run had an error, 1.0 when none had.
C19_SuccessRate ==
    (Started # {} /\ \A r \in Started : Done(r)) =>
        LET health == get_system_health
            N == Cardinality(Started)
            S == Cardinality(WithoutError)
        IN  /\ health.successful_pipelines = S
            /\ health.success_rate.num * N = S * health.success_rate.den

RECURSIVE FailedAttempts(_)
\* The number of failed or timed-out attempts of a set of runs.
FailedAttempts(rs) ==
    IF rs = {} THEN 0
    ELSE LET r == CHOOSE x \in rs : TRUE
         IN  CountEv(calls[r], {"raise", "timeout"}) + FailedAttempts(rs \ {r})

\* C20: total_errors of get_system_health is the number of error records of
\* all runs: one for every failed or timed-out attempt.
C20_TotalErrors ==
    get_system_health.total_errors = FailedAttempts(Started)

\* C21: the error object a failed call returns names the run id and the stage
\* at which the run failed, and carries the query, the metrics collected so
\* far and the elapsed time.
C21_ErrorObjectNamesStage ==
    \A r \in Runs :
        (Done(r) /\ result[r].status = "error") =>
            /\ result[r].pipeline_id = run[r].pipeline_id
            /\ result[r].query = run[r].query
            /\ result[r].supervisor_metrics = ReportedMetrics(r)
            /\ result[r].processing_time >= 0
            /\ result[r].error.stage = run[r].stage

\* C22: when a step of the citation replacement fails, the draft of the
\* result is the draft paper generation produced, abstract and sections
\* unchanged.
C22_ReplacementFailOpen ==
    \A r \in Runs :
        (/\ Done(r) /\ result[r].status = "success"
         /\ ReturnedFrom(r, GENERATION)
         /\ ~result[r].draft.sections_is_dict) =>
            result[r].draft \in World.drafts

\* C23: the failure _execute_with_retry signals when the attempts of a stage
\* are exhausted names the stage and the max_retries + 1 attempts made,
\* whether the last attempt timed out or raised; for retrieval it is the
\* error of the result.
C23_ExhaustionNamesStage ==
    \A r \in Runs, stage \in PipelineStage :
        Raised(r, stage) =>
            LET exc == Exhausted(LastFailure(r, stage), stage, retry_config.max_retries)
            IN  /\ exc.stage = stage
                /\ exc.attempts = retry_config.max_retries + 1
                /\ (stage = RETRIEVAL /\ Done(r)) => result[r].error = exc

\* The runs that have returned a success result: their total duration is set.
Completed == {r \in Started : Done(r) /\ result[r].status = "success"}

RECURSIVE SumDurations(_)
SumDurations(rs) ==
    IF rs = {} THEN 0
    ELSE LET r == CHOOSE x \in rs : TRUE
         IN  result[r].processing_time + SumDurations(rs \ {r})

\* C24: average_processing_time is the mean total duration of the completed
\* runs, and 0 when no run has completed; aborted runs and runs in flight do
\* not count.
C24_AverageOverCompleted ==
    LET average == get_system_health.average_processing_time
    IN  IF Completed = {} THEN average.num = 0
        ELSE average.num * Cardinality(Completed) = SumDurations(Completed) * average.den

\* Retrieval returned a non-empty list to the run on its first attempt.
RetrievedAtOnce(r) ==
    /\ Len(calls[r]) >= 2
    /\ calls[r][2] = Event(RETRIEVAL, "return", 0, "returned")
    /\ run[r].papers # <<>>

\* The step in which the first attempt of retrieval returns a non-empty list.
RetrievesAtOnce(r) == ~RetrievedAtOnce(r) /\ RetrievedAtOnce(r)'

\* C25: when retrieval returns a non-empty list on its first attempt the
\* executor sleeps no backoff and records no error for retrieval, and the next
\* step of the run is the start of summarization.
C25_FirstAttemptNoDelay ==
    /\ [](\A r \in Runs : RetrievedAtOnce(r) =>
            /\ \A i \in DOMAIN sleeps[r] : sleeps[r][i].stage # RETRIEVAL
            /\ CountEv(StageEvents(r, RETRIEVAL), {"raise", "timeout"}) = 0
            /\ Len(calls[r]) >= 3
            /\ calls[r][3] = Event(SUMMARIZATION, "begin", 0, "running"))
    /\ [][\A r \in Runs : RetrievesAtOnce(r) =>
            /\ sleeps'[r] = sleeps[r]
            /\ pipeline_metrics'[run[r].pipeline_id].errors
                    = pipeline_metrics[run[r].pipeline_id].errors
            /\ run'[r].pc = "calling" /\ run'[r].stage = SUMMARIZATION
            /\ inflight'[r] = {SUMMARIZATION}]_vars

\* C25 witness: retrieval's first attempt returned papers and summarization
\* has been started with nothing slept.
C25_Witness ==
    \E r \in Runs :
        /\ RetrievedAtOnce(r)
        /\ run[r].stage = SUMMARIZATION /\ run[r].pc = "calling"
        /\ sleeps[r] = <<>>

\* The attempts a run has made of a stage.
Attempts(r, stage) == CountEv(StageEvents(r, stage), {"begin"})

\* C26 (as stated): every run that was started ends, every collaborator call
\* of the run, citation placeholder replacement included, being an attempt of
\* the executor, bounded by timeout_seconds and by the retry count.
C26_EveryCallBoundedByTimeout ==
    /\ \A r \in Runs : (run[r].pc # "idle") ~> Done(r)
    /\ [](\A r \in Runs : \A i \in DOMAIN calls[r] :
            calls[r][i].stage \in {CITATION_REPLACEMENT, REFERENCE_FORMATTING} =>
                calls[r][i].ev \in {"begin", "return", "raise", "timeout"})

\* C26 (amended): every run that was started returns a success or an error
\* result.  Each of the five stages makes at most max_retries + 1 attempts,
\* each ended by wait_for; citation placeholder replacement and reference
\* formatting are no attempts of the executor and have no timeout: they are
\* single steps that leave no call pending.
C26_RunsTerminate ==
    /\ \A r \in Runs : (run[r].pc # "idle") ~> Done(r)
    /\ [](\A r \in Runs :
            /\ Done(r) => result[r].status \in {"success", "error"}
            /\ inflight[r] \subseteq PipelineStage
            /\ \A stage \in PipelineStage :
                    Attempts(r, stage) <= retry_config.max_retries + 1
            /\ \A i \in DOMAIN calls[r] :
                    calls[r][i].stage \in {CITATION_REPLACEMENT, REFERENCE_FORMATTING} =>
                        calls[r][i].ev = "step")

\* C26 witness: a run has returned after a stage used up its attempts on a
\* timeout and after citation placeholder replacement.
C26_Witness ==
    \E r \in Runs :
        /\ Done(r) /\ retry_config.max_retries >= 1
        /\ \E stage \in PipelineStage :
                Raised(r, stage) /\ LastFailure(r, stage) = "timeout"
        /\ \E i \in DOMAIN calls[r] : calls[r][i].stage = CITATION_REPLACEMENT

\* The attempts after the first that a run has made.
Reattempts(r) ==
    Cardinality({i \in DOMAIN calls[r] :
                    calls[r][i].ev = "begin" /\ calls[r][i].attempt >= 1})

\* C27: the retries metric of a run is the number of re-attempts the executor
\* has made in that run.
C27_RetriesCounted ==
    \A r \in Runs :
        run[r].pc # "idle" => ReportedMetrics(r).retries = Reattempts(r)

\* The status reported for a stage of the run.
ReportedStatus(r, stage) == get_pipeline_status(run[r].pipeline_id).agent_status[stage]

\* C28: once a run has returned none of its stages has status running, each
\* stage that was started being completed or failed; when no run is in flight
\* active_pipelines is 0.
C28_NoStageLeftRunning ==
    /\ \A r \in Runs : Done(r) =>
            \A stage \in PipelineStage :
                /\ ReportedStatus(r, stage) # RUNNING
                /\ Invoked(r, stage) => ReportedStatus(r, stage) \in {COMPLETED, FAILED}
    /\ (\A r \in Started : Done(r)) => get_system_health.active_pipelines = 0

\* No other run has the pipeline id of the run.
IdNotShared(r) ==
    \A r2 \in Started \ {r} : run[r2].pipeline_id # run[r].pipeline_id

\* The positions in StageOrder of the stages of a list.
StagePos(stage) == CHOOSE i \in DOMAIN StageOrder : StageOrder[i] = stage

\* C29: for a run whose id is shared with no other run, whenever none of its
\* stages is running: a stage is in stages_completed iff its status is
\* completed; a stage whose result was replaced by a fallback is failed and
\* not in stages_completed; stages_completed is a duplicate-free subsequence
\* of the stage order.
C29_CompletedIffStatusCompleted ==
    \A r \in Started :
        (IdNotShared(r) /\ \A stage \in PipelineStage : ReportedStatus(r, stage) # RUNNING) =>
            LET done == ReportedStages(r)
            IN  /\ \A stage \in PipelineStage :
                        /\ (\E i \in DOMAIN done : done[i] = stage)
                                <=> ReportedStatus(r, stage) = COMPLETED
                        /\ (Raised(r, stage) /\ ~IsFatal(stage)) =>
                                /\ ReportedStatus(r, stage) = FAILED
                                /\ \A i \in DOMAIN done : done[i] # stage
                /\ \A i \in DOMAIN done : done[i] \in PipelineStage
                /\ \A i, j \in DOMAIN done :
                        i < j => StagePos(done[i]) < StagePos(done[j])

\* C29 witness: a run has returned with stages completed and with stages
\* whose result is a fallback.
C29_Witness ==
    \E r \in Started :
        /\ Done(r) /\ result[r].status = "success"
        /\ Raised(r, SUMMARIZATION) /\ Raised(r, ANALYTICS)
        /\ ReturnedFrom(r, CITATION) /\ ReturnedFrom(r, GENERATION)

\* The pipeline ids of the runs whose result has status error.
ErrorIds == {run[r].pipeline_id : r \in {x \in Started : Done(x) /\ result[x].status = "error"}}

\* C30: a run whose result has status error is not counted in
\* successful_pipelines, also when it was aborted because retrieval returned
\* an empty list.
C30_ErrorRunNotSuccessful ==
    get_system_health.successful_pipelines <= Cardinality(MetricsKeys \ ErrorIds)

=============================================================================
